---- MODULE Spec2Model ----
(***************************************************************************)
(* Model of MooreArduino::MooreMachine<State, Input, Effect>                *)
(* (src/MooreArduino/src/MooreMachine.h).                                   *)
(*                                                                          *)
(* The engine's fields are the variables currentState, delta, lambda,       *)
(* observers and observerCount.  Function pointers are modelled by names;   *)
(* what a pointed-to function does is given by ApplyDelta, ApplyLambda and  *)
(* (for observers, which return void) by the record of the calls made.      *)
(* The remaining variables are history variables that record what a caller  *)
(* of the engine can see: the constructor's argument, the inputs stepped so *)
(* far, the last call with its return value, and the observer calls that    *)
(* the last call made.                                                      *)
(*                                                                          *)
(* The module also models the three clock clients of the library, Timer     *)
(* (Timer.h), AsyncOp (AsyncOp.h) and Button (Button.h), over a clock       *)
(* millis() that is an unsigned counter of `bits` bits.  Their const        *)
(* methods are state functions; their other methods are actions.            *)
(***************************************************************************)
EXTENDS Integers, Sequences, FiniteSets, TLC

\* ---------------------------------------------------------------- bounds
MaxState == 2       \* State space Q = 0..MaxState
MaxSteps == 2       \* step calls explored per behaviour
MaxRegistered == 3  \* observers registered at a time when the whole engine is driven
ClockBits == 3      \* width of unsigned long when the clock clients are driven
WordBits == 7       \* width of unsigned long when getProgress is evaluated
ReaderBits == 2     \* width of unsigned long where the reader is polled for ever
MaxReadGap == 1     \* milliseconds between the two millis() calls of one update()

\* ------------------------------------------------------ program constants
MAX_OBSERVERS == 8

\* ------------------------------------------------------------ value sets
NULL == "nullptr"
States == 0..MaxState
Inputs == {0, 1}                          \* input alphabet Sigma: two symbols
DeltaFns == {"rotate", "count"}           \* transition functions a caller supplies
LambdaFns == {"succ", "parity"}           \* output functions a caller supplies
ObserverFns == {"A", "B", "C"}            \* observer callbacks a caller supplies
Slots == 0..(MAX_OBSERVERS - 1)

VARIABLES currentState, delta, lambda, observers, observerCount,
          q0, inputs, lastCall, notified

\* The clock and its clients.  device is the object the sketch drives;
\* sinceTrigger, sinceStart and sinceChange are history variables: the time
\* that really passed since lastTrigger, startTime and the last observed
\* change of the raw reading were taken, counted up to 2^bits ("or more").
\* event tells a call of a client from a tick of the clock and a change of
\* the pin.  History of the reader: lastRead is the raw reading that the
\* previous update() saw, sinceChange the real time since update() last saw
\* the raw reading change, sinceAssigned the real time since lastChangeTime
\* was assigned, sincePoll the ticks since the last update() (2 = two or more).
VARIABLES device, bits, millis, event,
          interval, lastTrigger, running, sinceTrigger,
          active, startTime, timeout, sinceStart,
          pin, lastState, buttonState, lastChangeTime, debounceDelay,
          lastRead, sinceChange, sinceAssigned, sincePoll

\* What an observer callback does when it is called: removes[o] is the
\* observer that o removes from the engine (NULL: it removes none).
VARIABLES removes

engine == <<currentState, delta, lambda, observers, observerCount>>
clock == <<device, bits, millis>>
timer == <<interval, lastTrigger, running, sinceTrigger>>
asyncOp == <<active, startTime, timeout, sinceStart>>
button == <<pin, lastState, buttonState, lastChangeTime, debounceDelay,
            lastRead, sinceChange, sinceAssigned, sincePoll>>
devices == <<clock, event, timer, asyncOp, button>>
vars == <<currentState, delta, lambda, observers, observerCount,
          q0, inputs, lastCall, notified, devices, removes>>

\* -------------------------------------------- caller-supplied functions
\* delta: Q x Sigma -> Q.  Two pure transition functions whose result depends
\* on the order of the inputs: "rotate" doubles the state and adds the input,
\* "count" resets on input 0 and otherwise counts up to the largest state.
ApplyDelta(f, q, i) ==
  IF f = "rotate" THEN (2 * q + i) % (MaxState + 1)
  ELSE IF i = 0 THEN 0
  ELSE IF q + i < MaxState THEN q + i ELSE MaxState

\* lambda: Q -> Gamma.  Effects are integers; Effect() is value-initialised.
DefaultEffect == 0
ApplyLambda(f, q) ==
  IF f = "succ" THEN q + 1 ELSE 10 + (q % 2)

\* Record of one completed call, as seen by the caller.
Call(op, arg, ret, nDelta, nLambda) ==
  [op |-> op, arg |-> arg, ret |-> ret, deltaCalls |-> nDelta, lambdaCalls |-> nLambda]

\* ------------------------------------------------- the clock's clients
\* unsigned long arithmetic.
Modulus == 2 ^ bits
Words == 0..(Modulus - 1)

\* Timer(intervalMs): Timer.h line 30.
TimerNew(intervalMs) ==
  /\ interval = intervalMs
  /\ lastTrigger = 0
  /\ running = FALSE
  /\ sinceTrigger = 0

\* AsyncOp(): AsyncOp.h line 37.
AsyncOpNew ==
  /\ active = FALSE
  /\ startTime = 0
  /\ timeout = 0
  /\ sinceStart = 0

\* The two values of digitalRead(), held in bool fields.
LOW == "LOW"
HIGH == "HIGH"

\* Button(pinNumber, debounceMs): Button.h line 36.  buttonState is the
\* field currentState of Button.
ButtonNew(debounceMs) ==
  /\ lastState = HIGH
  /\ buttonState = HIGH
  /\ lastChangeTime = 0
  /\ debounceDelay = debounceMs
  /\ lastRead = "none"
  /\ sinceChange = 0
  /\ sinceAssigned = 0
  /\ sincePoll = 0

\* The clock clients of a sketch that drives the engine only.
DevicesIdle ==
  /\ device = "none"
  /\ bits = ClockBits
  /\ millis = 0
  /\ event = "call"
  /\ TimerNew(0)
  /\ AsyncOpNew
  /\ pin = HIGH
  /\ ButtonNew(0)

\* --------------------------------------------------------- constructor
Init ==
  /\ q0 \in States
  /\ delta \in DeltaFns \cup {NULL}
  /\ currentState = q0
  /\ lambda = NULL
  /\ observerCount = 0
  /\ observers = [i \in Slots |-> NULL]
  /\ inputs = <<>>
  /\ lastCall = Call("new", NULL, NULL, 0, 0)
  /\ notified = <<>>
  /\ removes = [o \in ObserverFns |-> NULL]
  /\ DevicesIdle

\* ----------------------------------------------------- notifyObservers
\* Variant: observers are told only of transitions that change the state.
notifyObservers_onChangeOnly(obs, cnt, i, oldState, newState) ==
  IF oldState = newState THEN <<>>
  ELSE [k \in 1..(cnt - i) |-> <<obs[i + k - 1], oldState, newState>>]

RECURSIVE notifyObservers(_, _, _, _, _)
notifyObservers(obs, cnt, i, oldState, newState) ==
  IF i >= cnt THEN <<>>
  ELSE (IF obs[i] # NULL THEN << <<obs[i], oldState, newState>> >> ELSE <<>>)
       \o notifyObservers(obs, cnt, i + 1, oldState, newState)

\* ---------------------------------------------------------------- step
\* Variant: the result of delta is passed to the observers but not stored.
step_dropsNewState(input) ==
  /\ Len(inputs) < MaxSteps
  /\ inputs' = Append(inputs, input)
  /\ IF delta = NULL
     THEN /\ notified' = <<>>
          /\ lastCall' = Call("step", input, NULL, 0, 0)
     ELSE /\ notified' = notifyObservers(observers, observerCount, 0, currentState,
                                         ApplyDelta(delta, currentState, input))
          /\ lastCall' = Call("step", input, NULL, 1, 0)
  /\ UNCHANGED <<engine, q0>>
  /\ UNCHANGED <<devices, removes>>

\* Variant: the transition is repeated on the same input, five links in a
\* row, each link notifying the observers.
RECURSIVE chainLog(_, _, _)
chainLog(q, input, n) ==
  IF n = 0 THEN <<>>
  ELSE notifyObservers(observers, observerCount, 0, q, ApplyDelta(delta, q, input))
       \o chainLog(ApplyDelta(delta, q, input), input, n - 1)

RECURSIVE chainState(_, _, _)
chainState(q, input, n) ==
  IF n = 0 THEN q ELSE chainState(ApplyDelta(delta, q, input), input, n - 1)

step_chained(input) ==
  /\ Len(inputs) < MaxSteps
  /\ inputs' = Append(inputs, input)
  /\ IF delta = NULL
     THEN /\ UNCHANGED engine
          /\ notified' = <<>>
          /\ lastCall' = Call("step", input, NULL, 0, 0)
     ELSE /\ currentState' = chainState(currentState, input, 5)
          /\ notified' = chainLog(currentState, input, 5)
          /\ lastCall' = Call("step", input, NULL, 5, 0)
          /\ UNCHANGED <<delta, lambda, observers, observerCount>>
  /\ UNCHANGED q0
  /\ UNCHANGED <<devices, removes>>

\* Variant: without the test of delta the observers are told of a
\* transition from the current state to itself.
step_noNullCheck(input) ==
  /\ Len(inputs) < MaxSteps
  /\ inputs' = Append(inputs, input)
  /\ IF delta = NULL
     THEN /\ UNCHANGED engine
          /\ notified' = notifyObservers(observers, observerCount, 0,
                                         currentState, currentState)
          /\ lastCall' = Call("step", input, NULL, 0, 0)
     ELSE /\ currentState' = ApplyDelta(delta, currentState, input)
          /\ notified' = notifyObservers(observers, observerCount, 0,
                                         currentState, currentState')
          /\ lastCall' = Call("step", input, NULL, 1, 0)
          /\ UNCHANGED <<delta, lambda, observers, observerCount>>
  /\ UNCHANGED q0
  /\ UNCHANGED <<devices, removes>>

step(input) ==
  /\ Len(inputs) < MaxSteps
  /\ inputs' = Append(inputs, input)
  /\ IF delta = NULL
     THEN /\ UNCHANGED engine
          /\ notified' = <<>>
          /\ lastCall' = Call("step", input, NULL, 0, 0)
     ELSE /\ currentState' = ApplyDelta(delta, currentState, input)
          /\ notified' = notifyObservers(observers, observerCount, 0,
                                         currentState, currentState')
          /\ lastCall' = Call("step", input, NULL, 1, 0)
          /\ UNCHANGED <<delta, lambda, observers, observerCount>>
  /\ UNCHANGED q0
  /\ UNCHANGED <<devices, removes>>

\* ------------------------------------------------------------ getState
getState ==
  /\ lastCall' = Call("getState", NULL, currentState, 0, 0)
  /\ notified' = <<>>
  /\ UNCHANGED <<engine, q0, inputs>>
  /\ UNCHANGED <<devices, removes>>

\* ---------------------------------------------------- getCurrentOutput
\* Variant: lambda is evaluated at the initial state.
getCurrentOutput_initialState ==
  /\ IF lambda # NULL
     THEN lastCall' = Call("getCurrentOutput", NULL, ApplyLambda(lambda, q0), 0, 1)
     ELSE lastCall' = Call("getCurrentOutput", NULL, DefaultEffect, 0, 0)
  /\ notified' = <<>>
  /\ UNCHANGED <<engine, q0, inputs>>
  /\ UNCHANGED <<devices, removes>>

getCurrentOutput ==
  /\ IF lambda # NULL
     THEN lastCall' = Call("getCurrentOutput", NULL, ApplyLambda(lambda, currentState), 0, 1)
     ELSE lastCall' = Call("getCurrentOutput", NULL, DefaultEffect, 0, 0)
  /\ notified' = <<>>
  /\ UNCHANGED <<engine, q0, inputs>>
  /\ UNCHANGED <<devices, removes>>

\* --------------------------------------------------- setOutputFunction
\* Variant: a null argument leaves the output function in place.
setOutputFunction_ignoresNull(outputFunc) ==
  /\ lambda' = IF outputFunc = NULL THEN lambda ELSE outputFunc
  /\ lastCall' = Call("setOutputFunction", outputFunc, NULL, 0, 0)
  /\ notified' = <<>>
  /\ UNCHANGED <<currentState, delta, observers, observerCount, q0, inputs>>
  /\ UNCHANGED <<devices, removes>>

setOutputFunction(outputFunc) ==
  /\ lambda' = outputFunc
  /\ lastCall' = Call("setOutputFunction", outputFunc, NULL, 0, 0)
  /\ notified' = <<>>
  /\ UNCHANGED <<currentState, delta, observers, observerCount, q0, inputs>>
  /\ UNCHANGED <<devices, removes>>

\* ---------------------------------------------------- addStateObserver
\* Variant: the null test is missing.
addStateObserver_acceptsNull(observer) ==
  /\ IF observerCount >= MAX_OBSERVERS
     THEN /\ lastCall' = Call("addStateObserver", observer, FALSE, 0, 0)
          /\ UNCHANGED <<observers, observerCount>>
     ELSE /\ observers' = [observers EXCEPT ![observerCount] = observer]
          /\ observerCount' = observerCount + 1
          /\ lastCall' = Call("addStateObserver", observer, TRUE, 0, 0)
  /\ notified' = <<>>
  /\ UNCHANGED <<currentState, delta, lambda, q0, inputs>>
  /\ UNCHANGED <<devices, removes>>

addStateObserver(observer) ==
  /\ IF observerCount >= MAX_OBSERVERS \/ observer = NULL
     THEN /\ lastCall' = Call("addStateObserver", observer, FALSE, 0, 0)
          /\ UNCHANGED <<observers, observerCount>>
     ELSE /\ observers' = [observers EXCEPT ![observerCount] = observer]
          /\ observerCount' = observerCount + 1
          /\ lastCall' = Call("addStateObserver", observer, TRUE, 0, 0)
  /\ notified' = <<>>
  /\ UNCHANGED <<currentState, delta, lambda, q0, inputs>>
  /\ UNCHANGED <<devices, removes>>

\* ------------------------------------------------- removeStateObserver
\* Indices below the count whose slot is identical to the argument.
Matches(obs, cnt, observer) == {i \in 0..(cnt - 1) : obs[i] = observer}

\* Variant: the search runs from the end of the list.
FirstMatch_last(obs, cnt, observer) ==
  CHOOSE i \in Matches(obs, cnt, observer) :
    \A k \in Matches(obs, cnt, observer) : i >= k

\* The first match: where the outer for loop stops.
FirstMatch(obs, cnt, observer) ==
  CHOOSE i \in Matches(obs, cnt, observer) :
    \A k \in Matches(obs, cnt, observer) : i <= k

\* Variant: the freed slot keeps its old content.
ShiftDown_keepsLast(obs, cnt, i) ==
  [j \in Slots |-> IF j >= i /\ j < cnt - 1 THEN obs[j + 1] ELSE obs[j]]

\* Variant: the hole is filled with the last entry instead of shifting.
ShiftDown_swapLast(obs, cnt, i) ==
  [j \in Slots |-> IF j = cnt - 1 THEN NULL
                   ELSE IF j = i THEN obs[cnt - 1]
                   ELSE obs[j]]

\* The inner loop (shift down), the decrement and the clearing of the freed slot.
ShiftDown(obs, cnt, i) ==
  [j \in Slots |-> IF j = cnt - 1 THEN NULL
                   ELSE IF j >= i /\ j < cnt - 1 THEN obs[j + 1]
                   ELSE obs[j]]

removeStateObserver(observer) ==
  /\ IF Matches(observers, observerCount, observer) = {}
     THEN /\ lastCall' = Call("removeStateObserver", observer, FALSE, 0, 0)
          /\ UNCHANGED <<observers, observerCount>>
     ELSE /\ observers' = ShiftDown(observers, observerCount,
                                    FirstMatch(observers, observerCount, observer))
          /\ observerCount' = observerCount - 1
          /\ lastCall' = Call("removeStateObserver", observer, TRUE, 0, 0)
  /\ notified' = <<>>
  /\ UNCHANGED <<currentState, delta, lambda, q0, inputs>>
  /\ UNCHANGED <<devices, removes>>

\* ---------------------------------------------------- getObserverCount
getObserverCount ==
  /\ lastCall' = Call("getObserverCount", NULL, observerCount, 0, 0)
  /\ notified' = <<>>
  /\ UNCHANGED <<engine, q0, inputs>>
  /\ UNCHANGED <<devices, removes>>

\* ------------------------------------------------------- specification
\* The whole engine: every operation with every argument, for every initial
\* state and transition function, with up to MaxRegistered observers.
Next ==
  \/ \E input \in Inputs : step(input)
  \/ getState
  \/ getCurrentOutput
  \/ \E f \in LambdaFns \cup {NULL} : setOutputFunction(f)
  \/ observerCount < MaxRegistered /\ \E o \in ObserverFns \cup {NULL} : addStateObserver(o)
  \/ \E o \in ObserverFns \cup {NULL} : removeStateObserver(o)
  \/ getObserverCount

Spec == Init /\ [][Next]_vars

\* The observer registry up to the full array, on an engine constructed
\* with delta = rotate and q0 = 0 and stepped with the input 1.
InitObservers ==
  /\ Init
  /\ q0 = 0
  /\ delta = "rotate"

NextObservers ==
  \/ step(1)
  \/ \E o \in ObserverFns \cup {NULL} : addStateObserver(o)
  \/ \E o \in ObserverFns \cup {NULL} : removeStateObserver(o)
  \/ getObserverCount

SpecObservers == InitObservers /\ [][NextObservers]_vars

\* ------------------------------- observers that call back into the engine
\* The loop of notifyObservers when a callback calls removeStateObserver:
\* the loop reads observers[i] and observerCount again at every turn.
RECURSIVE notifyReentrant(_, _, _, _, _)
notifyReentrant(obs, cnt, i, oldState, newState) ==
  IF i >= cnt THEN [observers |-> obs, observerCount |-> cnt, log |-> <<>>]
  ELSE LET o == obs[i]
           target == IF o = NULL THEN NULL ELSE removes[o]
           found == target # NULL /\ Matches(obs, cnt, target) # {}
           obs2 == IF found
                   THEN ShiftDown(obs, cnt, FirstMatch(obs, cnt, target))
                   ELSE obs
           cnt2 == IF found THEN cnt - 1 ELSE cnt
           rest == notifyReentrant(obs2, cnt2, i + 1, oldState, newState)
       IN [rest EXCEPT !.log =
             (IF o # NULL THEN << <<o, oldState, newState>> >> ELSE <<>>) \o @]

\* step(input) with such observers.
stepReentrant(input) ==
  /\ Len(inputs) < MaxSteps
  /\ inputs' = Append(inputs, input)
  /\ IF delta = NULL
     THEN /\ UNCHANGED engine
          /\ notified' = <<>>
          /\ lastCall' = Call("step", input, NULL, 0, 0)
     ELSE LET r == notifyReentrant(observers, observerCount, 0, currentState,
                                   ApplyDelta(delta, currentState, input))
          IN /\ currentState' = ApplyDelta(delta, currentState, input)
             /\ observers' = r.observers
             /\ observerCount' = r.observerCount
             /\ notified' = r.log
             /\ lastCall' = Call("step", input, NULL, 1, 0)
             /\ UNCHANGED <<delta, lambda>>
  /\ UNCHANGED q0
  /\ UNCHANGED <<devices, removes>>

\* An engine constructed with delta = rotate and q0 = 0 whose observers
\* each remove one observer, or none, when they are called.
InitCallbacks ==
  /\ q0 = 0
  /\ delta = "rotate"
  /\ currentState = q0
  /\ lambda = NULL
  /\ observerCount = 0
  /\ observers = [i \in Slots |-> NULL]
  /\ inputs = <<>>
  /\ lastCall = Call("new", NULL, NULL, 0, 0)
  /\ notified = <<>>
  /\ removes \in [ObserverFns -> ObserverFns \cup {NULL}]
  /\ DevicesIdle

NextCallbacks ==
  \/ stepReentrant(1)
  \/ observerCount < MaxRegistered /\ \E o \in ObserverFns : addStateObserver(o)
  \/ \E o \in ObserverFns : removeStateObserver(o)

SpecCallbacks == InitCallbacks /\ [][NextCallbacks]_vars

\* ------------------------------------------------ auxiliary definitions
\* The registered observers as a sequence, in slot order.
Registered(obs, cnt) == [k \in 1..cnt |-> obs[k - 1]]

\* Left fold of a transition function over a sequence of inputs.
RECURSIVE FoldLeft(_, _, _)
FoldLeft(f, q, s) ==
  IF s = <<>> THEN q ELSE FoldLeft(f, ApplyDelta(f, q, Head(s)), Tail(s))

\* A sequence without its k-th element.
RemoveAt(s, k) == [j \in 1..(Len(s) - 1) |-> IF j < k THEN s[j] ELSE s[j + 1]]

\* The positions of x in a sequence.
Positions(s, x) == {k \in 1..Len(s) : s[k] = x}

\* ------------------------------------------------------------------ C1
\* C1: with no output function set, the state held by the engine (and the
\* value getState() returns) is the left fold of delta over the initial
\* state and the inputs stepped so far; with no input stepped it is the
\* initial state.  Calls of getState, getObserverCount, addStateObserver
\* and removeStateObserver in between do not change this.
C1_LeftFold ==
  (delta # NULL /\ lambda = NULL) =>
    /\ currentState = FoldLeft(delta, q0, inputs)
    /\ (inputs = <<>> => currentState = q0)
    /\ (lastCall.op = "getState" => lastCall.ret = FoldLeft(delta, q0, inputs))

\* Two different inputs were stepped in an order that matters, observers were
\* registered in between, and getState has just been called.
C1_Witness ==
  /\ delta # NULL /\ lambda = NULL
  /\ lastCall.op = "getState"
  /\ Len(inputs) >= 2
  /\ FoldLeft(delta, q0, inputs) # FoldLeft(delta, q0, <<inputs[2], inputs[1]>>)
  /\ lastCall.ret # q0
  /\ observerCount > 0

\* ------------------------------------------------------------------ C2
\* C2: a step call with delta present moves the state to delta(old, input)
\* and calls every registered observer exactly once, in registration order,
\* with (old, new); also when new equals old.
C2_NotifyAll ==
  [][(lastCall'.op = "step" /\ delta # NULL) =>
       /\ currentState' = ApplyDelta(delta, currentState, lastCall'.arg)
       /\ notified' = [k \in 1..observerCount |->
                         <<observers[k - 1], currentState, currentState'>>]]_vars

\* A step that left the state unchanged has notified two different observers.
C2_Witness ==
  /\ lastCall.op = "step" /\ delta # NULL
  /\ Len(notified) >= 2
  /\ notified[1][1] # notified[2][1]
  /\ notified[1][2] = notified[1][3]

\* ------------------------------------------------------------------ C3
\* C3: 0 <= observerCount <= MAX_OBSERVERS, the slots below the count hold
\* observers and the slots at or above it hold null; getObserverCount()
\* returns the count.
C3_ObserverBounds ==
  /\ observerCount >= 0
  /\ observerCount <= MAX_OBSERVERS
  /\ \A i \in Slots : (i < observerCount) <=> (observers[i] # NULL)
  /\ (lastCall.op = "getObserverCount" => lastCall.ret = observerCount)

\* An observer that was neither the first nor the last entry has been
\* removed from a full list, after a step was made.
C3_Witness ==
  /\ lastCall.op = "removeStateObserver" /\ lastCall.ret = TRUE
  /\ observerCount = MAX_OBSERVERS - 1
  /\ observers[0] # lastCall.arg
  /\ observers[observerCount - 1] # lastCall.arg
  /\ inputs # <<>>

\* ------------------------------------------------------------------ C4
\* C4: addStateObserver(obs) returns false and changes nothing when the list
\* is full or obs is null; otherwise it returns true and appends obs, the
\* existing entries keeping their order.  A registration that follows a
\* successful removal succeeds.
C4_AddObserver ==
  [][lastCall'.op = "addStateObserver" =>
       /\ IF observerCount = MAX_OBSERVERS \/ lastCall'.arg = NULL
          THEN /\ lastCall'.ret = FALSE
               /\ UNCHANGED <<observers, observerCount>>
          ELSE /\ lastCall'.ret = TRUE
               /\ observerCount' = observerCount + 1
               /\ Registered(observers', observerCount')
                    = Append(Registered(observers, observerCount), lastCall'.arg)
       /\ (lastCall.op = "removeStateObserver" /\ lastCall.ret = TRUE
             /\ lastCall'.arg # NULL => lastCall'.ret = TRUE)]_vars

\* The registration on a full list has just failed.
C4_Witness ==
  /\ lastCall.op = "addStateObserver"
  /\ lastCall.arg # NULL
  /\ lastCall.ret = FALSE
  /\ observerCount = MAX_OBSERVERS

\* ------------------------------------------------------------------ C5
\* C5: a successful removeStateObserver deletes one entry of the list and
\* shifts the later entries down, so the remaining observers keep their
\* relative order, and a following step notifies them in that order.
C5_RemoveKeepsOrder ==
  [][/\ (lastCall'.op = "removeStateObserver" /\ lastCall'.ret = TRUE) =>
          \E k \in 1..observerCount :
            /\ observers[k - 1] = lastCall'.arg
            /\ Registered(observers', observerCount')
                 = RemoveAt(Registered(observers, observerCount), k)
     /\ (lastCall.op = "removeStateObserver" /\ lastCall.ret = TRUE
           /\ lastCall'.op = "step" /\ delta # NULL) =>
          [k \in 1..Len(notified') |-> notified'[k][1]]
            = Registered(observers, observerCount)]_vars

\* B has just been removed and A, C are left, in this order.
C5_Witness ==
  /\ lastCall.op = "removeStateObserver"
  /\ lastCall.arg = "B" /\ lastCall.ret = TRUE
  /\ Registered(observers, observerCount) = <<"A", "C">>
\* ------------------------------------------------------------------ C6
\* C6: getCurrentOutput() returns lambda(currentState) for the state held
\* when it is called, or the default Effect when no output function is set;
\* it changes no field of the engine, and a call that directly follows
\* another returns the same value.
C6_CurrentOutput ==
  [][lastCall'.op = "getCurrentOutput" =>
       /\ lastCall'.ret = (IF lambda = NULL THEN DefaultEffect
                           ELSE ApplyLambda(lambda, currentState))
       /\ UNCHANGED <<currentState, delta, lambda, observers, observerCount>>
       /\ notified' = <<>>
       /\ (lastCall.op = "getCurrentOutput" => lastCall'.ret = lastCall.ret)]_vars

\* The output was queried in a state whose output differs from that of the
\* initial state.
C6_Witness ==
  /\ lastCall.op = "getCurrentOutput"
  /\ lambda # NULL
  /\ lastCall.ret = ApplyLambda(lambda, currentState)
  /\ ApplyLambda(lambda, currentState) # ApplyLambda(lambda, q0)
  /\ lastCall.ret # DefaultEffect

C8_NullDelta ==
  [][delta = NULL =>
       /\ currentState = q0
       /\ currentState' = q0
       /\ (lastCall'.op = "step" =>
             /\ notified' = <<>>
             /\ lastCall'.deltaCalls = 0
             /\ lastCall'.lambdaCalls = 0
             /\ UNCHANGED <<currentState, delta, lambda, observers, observerCount>>)]_vars

\* step was called on an engine with a null delta, an output function and
\* observers.
C8_Witness ==
  /\ delta = NULL
  /\ lastCall.op = "step"
  /\ observerCount > 0
  /\ lambda # NULL
  /\ Len(inputs) >= 2

\* ------------------------------------------------------------------ C9
\* C9: removeStateObserver(obs) returns false and changes nothing when obs
\* is not registered; otherwise it returns true, the count drops by one and
\* only the earliest entry identical to obs is deleted, so that an observer
\* registered twice stays registered once and a following step notifies it
\* once.
C9_RemoveObserver ==
  [][/\ lastCall'.op = "removeStateObserver" =>
          LET reg == Registered(observers, observerCount)
              reg2 == Registered(observers', observerCount')
              at == Positions(reg, lastCall'.arg)
          IN IF at = {}
             THEN /\ lastCall'.ret = FALSE
                  /\ UNCHANGED <<observers, observerCount>>
             ELSE /\ lastCall'.ret = TRUE
                  /\ observerCount' = observerCount - 1
                  /\ reg2 = RemoveAt(reg, CHOOSE k \in at : \A m \in at : k <= m)
                  /\ Cardinality(Positions(reg2, lastCall'.arg)) = Cardinality(at) - 1
     /\ (lastCall.op = "removeStateObserver" /\ lastCall.ret = TRUE
           /\ lastCall'.op = "step" /\ delta # NULL) =>
          Cardinality({k \in 1..Len(notified') : notified'[k][1] = lastCall.arg})
            = Cardinality(Positions(Registered(observers, observerCount), lastCall.arg))]_vars

\* One of two registrations of an observer has been removed; the other one,
\* behind a different observer, is still in the list.
C9_Witness ==
  /\ lastCall.op = "removeStateObserver" /\ lastCall.ret = TRUE
  /\ observerCount >= 2
  /\ observers[0] # lastCall.arg
  /\ Cardinality(Positions(Registered(observers, observerCount), lastCall.arg)) = 1

\* ----------------------------------------------------------------- C10
\* C10: setOutputFunction(f) stores f as the output function and changes
\* neither the state nor the observer list, and notifies nobody; a
\* getCurrentOutput() that follows uses f, or returns the default Effect
\* when f is null; step neither calls nor changes the output function.
C10_SetOutputFunction ==
  [][/\ lastCall'.op = "setOutputFunction" =>
          /\ lambda' = lastCall'.arg
          /\ UNCHANGED <<currentState, delta, observers, observerCount>>
          /\ notified' = <<>>
          /\ lastCall'.lambdaCalls = 0
     /\ (lastCall.op = "setOutputFunction" /\ lastCall'.op = "getCurrentOutput") =>
          lastCall'.ret = (IF lastCall.arg = NULL THEN DefaultEffect
                           ELSE ApplyLambda(lastCall.arg, currentState))
     /\ lastCall'.op = "step" =>
          /\ lambda' = lambda
          /\ lastCall'.lambdaCalls = 0]_vars

\* The output function was set on an engine that has observers and has left
\* its initial state.
C10_Witness ==
  /\ lastCall.op = "setOutputFunction"
  /\ lastCall.arg = "parity" /\ lambda = "parity"
  /\ observerCount > 0
  /\ currentState # q0
\* ---------------------------------------------------------------- clock
\* Variant: the difference is taken without the wraparound.
ElapsedSince_noWrap(t) == IF millis >= t THEN millis - t ELSE 0

\* millis() - t in unsigned long arithmetic.
ElapsedSince(t) == (millis - t) % Modulus

\* A history counter of real time: ms more milliseconds, up to 2^bits.
Later(since, ms) == IF since + ms < Modulus THEN since + ms ELSE Modulus

\* The history counter of a client that the sketch constructed.
LaterOf(client, since, ms) == IF device = client THEN Later(since, ms) ELSE since

everythingElse == <<engine, q0, inputs, notified, removes>>

\* One millisecond passes: millis() counts up and wraps at 2^bits.
Tick ==
  /\ millis' = (millis + 1) % Modulus
  /\ event' = "tick"
  /\ sinceTrigger' = LaterOf("Timer", sinceTrigger, 1)
  /\ sinceStart' = LaterOf("AsyncOp", sinceStart, 1)
  /\ sinceChange' = LaterOf("Button", sinceChange, 1)
  /\ sinceAssigned' = LaterOf("Button", sinceAssigned, 1)
  /\ sincePoll' = IF device = "Button" /\ sincePoll < 2 THEN sincePoll + 1
                ELSE sincePoll
  /\ UNCHANGED <<device, bits, interval, lastTrigger, running>>
  /\ UNCHANGED <<active, startTime, timeout>>
  /\ UNCHANGED <<pin, lastState, buttonState, lastChangeTime, debounceDelay,
                 lastRead>>
  /\ UNCHANGED <<everythingElse, lastCall>>

\* ---------------------------------------------------------------- Timer
Timer_start ==
  /\ lastTrigger' = millis
  /\ running' = TRUE
  /\ sinceTrigger' = 0
  /\ lastCall' = Call("Timer.start", NULL, NULL, 0, 0)
  /\ UNCHANGED interval
  /\ event' = "call"
  /\ UNCHANGED <<clock, asyncOp, button, everythingElse>>

Timer_stop ==
  /\ running' = FALSE
  /\ lastCall' = Call("Timer.stop", NULL, NULL, 0, 0)
  /\ UNCHANGED <<interval, lastTrigger, sinceTrigger>>
  /\ event' = "call"
  /\ UNCHANGED <<clock, asyncOp, button, everythingElse>>

\* restart() calls start().
Timer_restart ==
  /\ lastTrigger' = millis
  /\ running' = TRUE
  /\ sinceTrigger' = 0
  /\ lastCall' = Call("Timer.restart", NULL, NULL, 0, 0)
  /\ UNCHANGED interval
  /\ event' = "call"
  /\ UNCHANGED <<clock, asyncOp, button, everythingElse>>

\* setInterval(ms) stores the interval and calls start().
Timer_setInterval(newIntervalMs) ==
  /\ interval' = newIntervalMs
  /\ lastTrigger' = millis
  /\ running' = TRUE
  /\ sinceTrigger' = 0
  /\ lastCall' = Call("Timer.setInterval", newIntervalMs, NULL, 0, 0)
  /\ event' = "call"
  /\ UNCHANGED <<clock, asyncOp, button, everythingElse>>

\* Variant: the timer is expired at the moment of expiry only.
Timer_expired_exact == running /\ ElapsedSince(lastTrigger) = interval

\* Variant: the comparison is strict.
Timer_expired_strict == running /\ ElapsedSince(lastTrigger) > interval

Timer_expired == running /\ ElapsedSince(lastTrigger) >= interval

Timer_remainingTime ==
  IF ~running THEN 0
  ELSE IF ElapsedSince(lastTrigger) >= interval THEN 0
  ELSE interval - ElapsedSince(lastTrigger)

\* -------------------------------------------------------------- AsyncOp
AsyncOp_start(timeoutMs) ==
  /\ active' = TRUE
  /\ startTime' = millis
  /\ timeout' = timeoutMs
  /\ sinceStart' = 0
  /\ lastCall' = Call("AsyncOp.start", timeoutMs, NULL, 0, 0)
  /\ event' = "call"
  /\ UNCHANGED <<clock, timer, button, everythingElse>>

AsyncOp_finish ==
  /\ active' = FALSE
  /\ lastCall' = Call("AsyncOp.finish", NULL, NULL, 0, 0)
  /\ UNCHANGED <<startTime, timeout, sinceStart>>
  /\ event' = "call"
  /\ UNCHANGED <<clock, timer, button, everythingElse>>

\* Variant: the timeout is reached at elapsed = timeout.
AsyncOp_timedOut_atTimeout == active /\ ElapsedSince(startTime) >= timeout

AsyncOp_timedOut == active /\ ElapsedSince(startTime) > timeout

AsyncOp_isActive == active

AsyncOp_remainingTime ==
  IF ~active THEN 0
  ELSE IF ElapsedSince(startTime) >= timeout THEN 0
  ELSE timeout - ElapsedSince(startTime)

AsyncOp_elapsedTime == IF ~active THEN 0 ELSE ElapsedSince(startTime)

\* Unsigned division; a division by zero is undefined and shown as -1.
UnsignedDiv(a, b) == IF b = 0 THEN -1 ELSE a \div b

\* Variant: the saturation test is strict.
AsyncOp_getProgress_strict ==
  IF ~active THEN 0
  ELSE IF ElapsedSince(startTime) > timeout THEN 100
  ELSE UnsignedDiv((ElapsedSince(startTime) * 100) % Modulus, timeout)

\* (elapsed * 100) / timeout in unsigned long arithmetic; the quotient is
\* below 2^bits and is returned as an int.
AsyncOp_getProgress ==
  IF ~active THEN 0
  ELSE IF ElapsedSince(startTime) >= timeout THEN 100
  ELSE UnsignedDiv((ElapsedSince(startTime) * 100) % Modulus, timeout)

\* --------------------------------------------------------------- Button
\* The environment changes the level of the pin.
PinFlip ==
  /\ pin' = IF pin = LOW THEN HIGH ELSE LOW
  /\ event' = "pin"
  /\ UNCHANGED <<lastState, buttonState, lastChangeTime, debounceDelay,
                 lastRead, sinceChange, sinceAssigned, sincePoll>>
  /\ UNCHANGED <<clock, timer, asyncOp, everythingElse, lastCall>>

Button_isPressed == buttonState = LOW

\* Variant: the debounce timer is not reset when the reading changes.
update_lastChangeTime_noReset == lastChangeTime

\* Variant: the reading is compared with the debounced state.
update_lastChangeTime_vsDebounced ==
  IF pin # buttonState THEN millis ELSE lastChangeTime

\* if (reading != lastState) lastChangeTime = millis();
update_lastChangeTime == IF pin # lastState THEN millis ELSE lastChangeTime

\* The two nested tests of update(); its second millis() call returns gap
\* milliseconds more than its first.
update_accepts(gap) ==
  /\ (millis + gap - update_lastChangeTime) % Modulus > debounceDelay
  /\ pin # buttonState

update_currentState(gap) == IF update_accepts(gap) THEN pin ELSE buttonState

\* What update() does to the reader.
update_effect(gap) ==
  /\ lastChangeTime' = update_lastChangeTime
  /\ buttonState' = update_currentState(gap)
  /\ lastState' = pin
  /\ millis' = (millis + gap) % Modulus
  /\ event' = "call"
  /\ lastRead' = pin
  /\ sinceChange' = IF lastRead # pin THEN gap ELSE Later(sinceChange, gap)
  /\ sinceAssigned' = IF pin # lastState THEN gap ELSE Later(sinceAssigned, gap)
  /\ sincePoll' = 0
  /\ sinceTrigger' = LaterOf("Timer", sinceTrigger, gap)
  /\ sinceStart' = LaterOf("AsyncOp", sinceStart, gap)
  /\ UNCHANGED <<pin, debounceDelay, device, bits>>
  /\ UNCHANGED <<interval, lastTrigger, running, active, startTime, timeout>>
  /\ UNCHANGED everythingElse

Button_update(gap) ==
  /\ update_effect(gap)
  /\ lastCall' = Call("Button.update", NULL, update_accepts(gap), 0, 0)

\* Variant: wasPressed() is update().
Button_wasPressed_anyChange(gap) ==
  /\ update_effect(gap)
  /\ lastCall' = Call("Button.wasPressed", NULL, update_accepts(gap), 0, 0)

\* update() && isPressed()
Button_wasPressed(gap) ==
  /\ update_effect(gap)
  /\ lastCall' = Call("Button.wasPressed", NULL,
                      update_accepts(gap) /\ update_currentState(gap) = LOW,
                      0, 0)

Button_setDebounceDelay(ms) ==
  /\ debounceDelay' = ms
  /\ event' = "call"
  /\ lastCall' = Call("Button.setDebounceDelay", ms, NULL, 0, 0)
  /\ UNCHANGED <<pin, lastState, buttonState, lastChangeTime,
                 lastRead, sinceChange, sinceAssigned, sincePoll>>
  /\ UNCHANGED <<clock, timer, asyncOp, everythingElse>>

\* -------------------------------------------- the clock clients' sketch
\* A sketch constructs one of the clock clients at boot (millis() = 0) and
\* drives it with every operation and argument while the clock runs.
Devices == {"Timer", "AsyncOp", "Button"}

\* The debounce delays the sketch uses: none, short ones, the longest.
Delays == {0, 1, 2, Modulus - 1}

EngineIdle ==
  /\ q0 = 0
  /\ delta = NULL
  /\ currentState = q0
  /\ lambda = NULL
  /\ observerCount = 0
  /\ observers = [i \in Slots |-> NULL]
  /\ inputs = <<>>
  /\ lastCall = Call("new", NULL, NULL, 0, 0)
  /\ notified = <<>>
  /\ removes = [o \in ObserverFns |-> NULL]

InitDevices ==
  /\ EngineIdle
  /\ device \in Devices
  /\ bits = ClockBits
  /\ millis = 0
  /\ event = "call"
  /\ \E ms \in Words : TimerNew(IF device = "Timer" THEN ms ELSE 0)
  /\ AsyncOpNew
  /\ pin \in (IF device = "Button" THEN {LOW, HIGH} ELSE {HIGH})
  /\ \E ms \in Delays : ButtonNew(IF device = "Button" THEN ms ELSE 0)

NextDevices ==
  \/ Tick
  \/ device = "Timer" /\ Timer_start
  \/ device = "Timer" /\ Timer_stop
  \/ device = "Timer" /\ Timer_restart
  \/ device = "Timer" /\ \E ms \in Words : Timer_setInterval(ms)
  \/ device = "AsyncOp" /\ \E ms \in Words : AsyncOp_start(ms)
  \/ device = "AsyncOp" /\ AsyncOp_finish
  \/ device = "Button" /\ PinFlip
  \/ device = "Button" /\ \E gap \in 0..MaxReadGap : Button_update(gap)
  \/ device = "Button" /\ \E gap \in 0..MaxReadGap : Button_wasPressed(gap)
  \/ device = "Button" /\ \E ms \in Delays : Button_setDebounceDelay(ms)

SpecDevices == InitDevices /\ [][NextDevices]_vars

\* The timeout tracker alone on a wider clock: the operation is started at
\* boot or one millisecond before the clock wraps, then the clock runs.
InitProgress ==
  /\ EngineIdle
  /\ device = "AsyncOp"
  /\ bits = WordBits
  /\ millis \in {0, Modulus - 1}
  /\ event = "call"
  /\ TimerNew(0)
  /\ AsyncOpNew
  /\ pin = HIGH
  /\ ButtonNew(0)

NextProgress ==
  \/ active /\ Tick
  \/ lastCall.op = "new" /\ \E ms \in Words : AsyncOp_start(ms)
  \/ active /\ AsyncOp_finish

SpecProgress == InitProgress /\ [][NextProgress]_vars

\* ----------------------------------------------------------------- C11
\* C11 as stated: after any sequence of start, stop, restart, setInterval
\* and clock advances, expired() is true iff the timer is running and the
\* time passed since the last start/restart/setInterval is at least the
\* interval, and remainingTime() is 0 when stopped or expired and
\* interval - elapsed otherwise.
C11_ExpiredIffElapsed ==
  device = "Timer" =>
    /\ Timer_expired <=> (running /\ sinceTrigger >= interval)
    /\ Timer_remainingTime = (IF ~running \/ Timer_expired THEN 0
                              ELSE interval - sinceTrigger)

\* C11 as amended: the same, as long as less than 2^bits ms have passed
\* since the last start/restart/setInterval; a timer that is not running is
\* never expired, start, restart and setInterval leave it running and stop
\* leaves it stopped, and remainingTime() is 0 exactly when the timer is
\* not running or expired.
C11_ExpiredWithinRange ==
  device = "Timer" =>
    /\ ~running => ~Timer_expired
    /\ (Timer_remainingTime = 0) <=> (~running \/ Timer_expired)
    /\ lastCall.op \in {"new", "Timer.stop"} => ~running
    /\ lastCall.op \in {"Timer.start", "Timer.restart", "Timer.setInterval"} => running
    /\ lastCall.op = "Timer.setInterval" => interval = lastCall.arg
    /\ (running /\ sinceTrigger < Modulus) =>
         /\ Timer_expired <=> (sinceTrigger >= interval)
         /\ ~Timer_expired => Timer_remainingTime = interval - sinceTrigger

\* A timer restarted by setInterval has expired after the clock wrapped.
C11_Witness ==
  /\ device = "Timer"
  /\ lastCall.op = "Timer.setInterval"
  /\ running /\ Timer_expired
  /\ interval > 1
  /\ sinceTrigger < Modulus
  /\ millis < lastTrigger

\* ----------------------------------------------------------------- C13
\* C13 as stated: after any sequence of start, finish and clock advances,
\* timedOut() is true iff the tracker is active and the time passed since
\* the last start is greater than the timeout; it is false right after
\* start(t), and while inactive isActive(), remainingTime(), elapsedTime()
\* and timedOut() are false, 0, 0 and false.
C13_TimedOutIffElapsed ==
  device = "AsyncOp" =>
    /\ AsyncOp_timedOut <=> (active /\ sinceStart > timeout)
    /\ ~active => /\ ~AsyncOp_isActive
                  /\ AsyncOp_remainingTime = 0
                  /\ AsyncOp_elapsedTime = 0

\* C13 as amended: the same, as long as less than 2^bits ms have passed
\* since the last start.
C13_TimedOutWithinRange ==
  device = "AsyncOp" =>
    /\ (active /\ sinceStart < Modulus) =>
         /\ AsyncOp_timedOut <=> (sinceStart > timeout)
         /\ AsyncOp_elapsedTime = sinceStart
    /\ (lastCall.op = "AsyncOp.start" /\ sinceStart = 0) =>
         /\ active /\ timeout = lastCall.arg
         /\ ~AsyncOp_timedOut
    /\ lastCall.op \in {"new", "AsyncOp.finish"} => ~active
    /\ ~active => /\ ~AsyncOp_timedOut
                  /\ ~AsyncOp_isActive
                  /\ AsyncOp_remainingTime = 0
                  /\ AsyncOp_elapsedTime = 0

\* An operation has timed out after the clock wrapped.
C13_Witness ==
  /\ device = "AsyncOp"
  /\ active /\ AsyncOp_timedOut
  /\ timeout > 0
  /\ sinceStart = timeout + 1
  /\ millis < startTime

\* ----------------------------------------------------------------- C14
\* C14: getProgress() is in 0..100 for every timeout and elapsed time, the
\* product elapsed * 100 being taken in unsigned long arithmetic and no
\* division by zero being made; it is 0 while inactive and 100 whenever
\* timedOut() is true.
C14_ProgressRange ==
  device = "AsyncOp" =>
    /\ AsyncOp_getProgress \in 0..100
    /\ ~active => AsyncOp_getProgress = 0
    /\ AsyncOp_timedOut => AsyncOp_getProgress = 100
    /\ (active /\ timeout = 0) => AsyncOp_getProgress = 100

\* The product elapsed * 100 has overflowed and the progress is positive.
C14_Witness ==
  /\ device = "AsyncOp"
  /\ active
  /\ ElapsedSince(startTime) < timeout
  /\ ElapsedSince(startTime) * 100 >= Modulus
  /\ AsyncOp_getProgress > 0
  /\ millis < startTime

\* ----------------------------------------------------------------- C19
\* C19: while the tracker stays active with no new start, getProgress()
\* does not decrease as the clock advances, for elapsed times below 2^bits.
C19_ProgressMonotone ==
  [][(active /\ active' /\ startTime' = startTime /\ timeout' = timeout
        /\ sinceStart <= sinceStart' /\ sinceStart' < Modulus)
       => AsyncOp_getProgress' >= AsyncOp_getProgress]_vars

\* ----------------------------------------------------------------- C12
\* C12: the elapsed time (now - start) mod 2^bits that Timer.expired,
\* AsyncOp.timedOut and Button.update compute is the real elapsed time
\* whenever the real elapsed time is below 2^bits, also when the clock
\* wrapped between the start and the poll; expired() and timedOut() then
\* answer as they would with an unbounded clock.
C12_WrapSafeElapsed ==
  /\ (device = "Timer" /\ sinceTrigger < Modulus) =>
       /\ ElapsedSince(lastTrigger) = sinceTrigger
       /\ Timer_expired <=> (running /\ sinceTrigger >= interval)
  /\ (device = "AsyncOp" /\ sinceStart < Modulus) =>
       /\ ElapsedSince(startTime) = sinceStart
       /\ AsyncOp_timedOut <=> (active /\ sinceStart > timeout)
  /\ (device = "Button" /\ sinceAssigned < Modulus) =>
       ElapsedSince(lastChangeTime) = sinceAssigned

\* The reader's timer was reset before the clock wrapped and is read after.
C12_Witness ==
  /\ device = "Button"
  /\ lastCall.op = "Button.update"
  /\ millis < lastChangeTime
  /\ lastChangeTime > 0
  /\ sinceAssigned > 1
  /\ sinceAssigned < Modulus

\* ----------------------------------------------------------------- C15
\* C15: when an update() call changes the debounced state to v, the raw
\* reading has been v at every update() since update() last saw it change,
\* and at least debounceDelay ms have passed since that change; an update()
\* made before the delay has passed leaves the debounced state as it is.
C15_StableBeforeAccept ==
  [][(device = "Button" /\ event' = "call")
       => /\ buttonState' # buttonState =>
               /\ lastCall'.op \in {"Button.update", "Button.wasPressed"}
               /\ buttonState' = pin
               /\ lastRead' = buttonState'
               /\ sinceChange' >= debounceDelay
          /\ sinceChange' < debounceDelay => buttonState' = buttonState]_vars

\* update() has accepted a press after a delay of more than a millisecond,
\* the debounce timer having been reset after boot.
C15_Witness ==
  /\ device = "Button"
  /\ lastCall.op = "Button.update" /\ lastCall.ret = TRUE
  /\ event = "call"
  /\ buttonState = LOW
  /\ debounceDelay > 1
  /\ sinceChange = debounceDelay + 1
  /\ sinceAssigned = sinceChange
  /\ lastChangeTime > 0

\* ----------------------------------------------------------------- C16
\* C16: wasPressed() returns true exactly on the call whose update changes
\* the debounced state from released (HIGH) to pressed (LOW); it is false on
\* the call that follows a call that returned true.  The state is released
\* before every call that returns true and pressed after it, so it went
\* back to released between two such calls.
C16_PressEdge ==
  [][(device = "Button" /\ event' = "call"
        /\ lastCall'.op = "Button.wasPressed")
       => /\ lastCall'.ret <=> (buttonState = HIGH /\ buttonState' = LOW)
          /\ (lastCall.op = "Button.wasPressed" /\ lastCall.ret = TRUE)
               => lastCall'.ret = FALSE]_vars

\* wasPressed() has returned true.
C16_Witness ==
  /\ device = "Button"
  /\ event = "call"
  /\ lastCall.op = "Button.wasPressed" /\ lastCall.ret = TRUE
  /\ buttonState = LOW /\ pin = LOW
  /\ debounceDelay > 0

\* ----------------------------------------------------------------- C18
\* C18 as stated: once expired() of a running timer is true it stays true
\* while the clock advances, until start, restart, setInterval or stop is
\* called; likewise timedOut() of an active tracker until start or finish.
C18_StaysExpired ==
  [][event' = "tick"
       => /\ (device = "Timer" /\ Timer_expired) => Timer_expired'
          /\ (device = "AsyncOp" /\ AsyncOp_timedOut) => AsyncOp_timedOut']_vars

\* C18 as amended: the same, as long as less than 2^bits ms have passed
\* since the last start, restart or setInterval of the timer and since the
\* last start of the tracker.
C18_StaysExpiredWithinRange ==
  [][event' = "tick"
       => /\ (device = "Timer" /\ Timer_expired /\ sinceTrigger' < Modulus)
               => Timer_expired'
          /\ (device = "AsyncOp" /\ AsyncOp_timedOut /\ sinceStart' < Modulus)
               => AsyncOp_timedOut']_vars

\* A timer is still expired 2^bits - 1 ms after its start, the clock having
\* wrapped since.
C18_Witness ==
  /\ device = "Timer"
  /\ event = "tick"
  /\ running /\ Timer_expired
  /\ interval \in 1..(Modulus - 2)
  /\ sinceTrigger = Modulus - 1
  /\ millis < lastTrigger

\* ----------------------------------------------------------------- C17
\* C17: when observer callbacks call removeStateObserver during the
\* notification of a step, every observer that was registered when the step
\* began and is still registered after it is notified exactly once for that
\* step: each observer is notified at least as often as it is registered
\* after the step and at most as often as it was registered before.
C17_SurvivorsNotified ==
  [][inputs' # inputs
       => \A o \in ObserverFns :
            LET before == Cardinality(Positions(Registered(observers, observerCount), o))
                after == Cardinality(Positions(Registered(observers', observerCount'), o))
                told == Cardinality({k \in 1..Len(notified') : notified'[k][1] = o})
            IN after <= told /\ told <= before]_vars

\* ----------------------------------------------------------------- C20
\* A sketch whose loop() polls one reader for ever while the clock runs and
\* the pin changes at any time.
InitReader ==
  /\ EngineIdle
  /\ device = "Button"
  /\ bits = ReaderBits
  /\ millis = 0
  /\ event = "call"
  /\ TimerNew(0)
  /\ AsyncOpNew
  /\ pin \in {LOW, HIGH}
  /\ \E ms \in Words : ButtonNew(ms)

Polled == \E gap \in 0..MaxReadGap : Button_update(gap)

NextReader ==
  \/ Tick
  \/ PinFlip
  \/ Polled

SpecReader ==
  InitReader /\ [][NextReader]_vars /\ WF_vars(Tick) /\ WF_vars(Polled)

\* C20 as stated: if the raw reading stays at a value different from the
\* debounced state while update() keeps being called and the clock
\* advances, the debounced state eventually becomes that value.
C20_EventuallyAccepted ==
  /\ (pin = LOW /\ buttonState # LOW) ~> (pin # LOW \/ buttonState = LOW)
  /\ (pin = HIGH /\ buttonState # HIGH) ~> (pin # HIGH \/ buttonState = HIGH)

\* The delay leaves room for a poll between its end and the wrap of the
\* elapsed time.
DelayInRange == debounceDelay + MaxReadGap < Modulus - 1

\* C20 as amended: the same, provided update() is called at least once in
\* every millisecond and the debounce delay plus the time one call takes is
\* below 2^bits - 1.
C20_AcceptedWhenPolled ==
  /\ (pin = LOW /\ buttonState # LOW /\ DelayInRange)
       ~> (pin # LOW \/ buttonState = LOW \/ sincePoll > 1)
  /\ (pin = HIGH /\ buttonState # HIGH /\ DelayInRange)
       ~> (pin # HIGH \/ buttonState = HIGH \/ sincePoll > 1)

\* From the initial state, with lastChangeTime still 0, a press was accepted
\* by a reader polled in every millisecond.
C20_Witness ==
  /\ device = "Button"
  /\ bits = ReaderBits
  /\ lastCall.op = "Button.update" /\ lastCall.ret = TRUE
  /\ event = "call"
  /\ pin = LOW /\ buttonState = LOW
  /\ lastChangeTime = 0
  /\ debounceDelay > 0
  /\ DelayInRange
  /\ sinceChange = debounceDelay + 1
====
